---- MODULE Spec2Model ----
(***************************************************************************)
(* The two lint rules of packages/remark-lint-maximum-heading-length/      *)
(* index.js: maximumHeadingLength (lines 40-50) and listItemSpacing        *)
(* (lines 193-280), as one state machine.  A behaviour is one invocation   *)
(* rule(tree, file, option): the entry of the rule, then the traversal of  *)
(* unist-util-visit with one step per node, the list visitor split at its  *)
(* two forEach loops (one step per callback).                              *)
(***************************************************************************)
EXTENDS Integers, Sequences, FiniteSets, TLC

VARIABLES
  rule,         \* which rule function is invoked
  tree,         \* first argument: the syntax tree (never written)
  option,       \* third argument: the option, a JavaScript value
  pc,           \* position in the invocation
  preferred,    \* maximumHeadingLength: var preferred (line 41)
  blanks,       \* listItemSpacing: var blanks (line 194)
  pending,      \* nodes the traversal of visit() still has to enter
  items,        \* list visitor: var items (line 203)
  isTightList,  \* list visitor: var isTightList (line 204)
  indent,       \* list visitor: var indent (line 205)
  type,         \* list visitor: var type (line 206)
  index,        \* position of the running forEach (1-based)
  messages,     \* second argument: the messages file.message() received
  origin        \* history: for each message, the node and item reported on

vars == <<rule, tree, option, pc, preferred, blanks, pending, items,
          isTightList, indent, type, index, messages, origin>>

(***************************************************************************)
(* Bounds of the input space.                                              *)
(***************************************************************************)
MaxBlocks == 2      \* headings (top-level blocks) in a generated document
MaxItems == 3       \* items of a generated list
MaxChildren == 2    \* children of a list item whose content is drawn freely
MaxLine == 3        \* lines an item's content may span
MaxColumn == 3      \* largest column of a list and of the end of an item

(***************************************************************************)
(* JavaScript values, as far as the option needs them.  Every value has    *)
(* its typeof in "type"; "kind" tells the values of one type apart.        *)
(***************************************************************************)
JsUndefined == [type |-> "undefined", kind |-> "undefined"]
JsNull == [type |-> "object", kind |-> "null"]
JsBoolean(b) == [type |-> "boolean", kind |-> "boolean", bool |-> b]
JsNumber(n) == [type |-> "number", kind |-> "finite", val |-> n]
JsNaN == [type |-> "number", kind |-> "NaN"]
JsInfinity == [type |-> "number", kind |-> "Infinity"]
JsNegInfinity == [type |-> "number", kind |-> "-Infinity"]
JsString(s) == [type |-> "string", kind |-> "string", str |-> s]
\* An object; checkBlanks is JsUndefined when the object has no such field.
JsObject(cb) == [type |-> "object", kind |-> "object", checkBlanks |-> cb]
\* The completion of an expression that throws.
TypeError == [type |-> "TypeError", kind |-> "throw"]

\* ToBoolean, as `&&` and Boolean() apply it.
Truthy(v) ==
  CASE v.kind = "undefined" -> FALSE
    [] v.kind = "null" -> FALSE
    [] v.kind = "boolean" -> v.bool
    [] v.kind = "finite" -> v.val # 0
    [] v.kind = "NaN" -> FALSE
    [] v.kind = "string" -> v.str # ""
    [] OTHER -> TRUE

\* preferred.checkBlanks: a property read throws on undefined and null,
\* and gives undefined on a primitive.
GetCheckBlanks(v) ==
  IF v.kind \in {"undefined", "null"} THEN TypeError
  ELSE IF v.kind = "object" THEN v.checkBlanks
  ELSE JsUndefined

\* typeof option === 'number' && !isNaN(option) ? option : 60   (line 41)
DefaultLength == 60

IsNaN(v) == v.kind = "NaN"

\* Variant of Preferred: the isNaN test left out.
PreferredAnyNumber(opt) ==
  IF opt.type = "number" THEN opt ELSE JsNumber(DefaultLength)

Preferred(opt) ==
  IF opt.type = "number" /\ ~IsNaN(opt) THEN opt ELSE JsNumber(DefaultLength)

\* Variant of CheckBlanksExpr: the leading `preferred &&` left out.
CheckBlanksNoGuard(opt) ==
  IF opt.type # "object" THEN JsBoolean(FALSE) ELSE GetCheckBlanks(opt)

\* preferred && typeof preferred === 'object' && preferred.checkBlanks
\* (lines 195-197): `a && b` is a when a is falsy, and b otherwise.
CheckBlanksExpr(opt) ==
  IF ~Truthy(opt) THEN opt
  ELSE IF opt.type # "object" THEN JsBoolean(FALSE)
  ELSE GetCheckBlanks(opt)

\* Variant of GreaterThan: `>=` for `>`.
GreaterOrEqual(n, p) ==
  CASE p.kind = "finite" -> n >= p.val
    [] p.kind = "-Infinity" -> TRUE
    [] OTHER -> FALSE

\* n > preferred for a string length n (line 46).
GreaterThan(n, p) ==
  CASE p.kind = "finite" -> n > p.val
    [] p.kind = "-Infinity" -> TRUE
    [] OTHER -> FALSE

\* '' + preferred (line 47).
NumberToString(p) ==
  CASE p.kind = "finite" -> ToString(p.val)
    [] p.kind = "Infinity" -> "Infinity"
    [] p.kind = "-Infinity" -> "-Infinity"
    [] OTHER -> "NaN"

(***************************************************************************)
(* Nodes.  A point is [line, column]; null stands for a missing line or    *)
(* column: unist-util-position gives `point.line || null` and the rules    *)
(* only use the result in `-` and `>`, where null counts as 0.             *)
(***************************************************************************)
null == 0

Point(l, c) == [line |-> l, column |-> c]

Pos(sl, sc, el, ec) == [start |-> Point(sl, sc), end |-> Point(el, ec)]

\* The position of a node that has none.
NoPosition == Pos(null, null, null, null)

Node(t, p, ch) ==
  [type |-> t, position |-> p, children |-> ch, value |-> "", alt |-> ""]

Text(v, p) ==
  [type |-> "text", position |-> p, children |-> <<>>, value |-> v, alt |-> ""]

Image(a, p) ==
  [type |-> "image", position |-> p, children |-> <<>>, value |-> "", alt |-> a]

\* What reading past the end of an array gives.
NoNode == [type |-> "undefined"]

\* array[j] for a JavaScript (0-based) index j.
At(array, j) == IF j >= 0 /\ j < Len(array) THEN array[j + 1] ELSE NoNode

\* unist-util-position: start(node) and end(node) (lines 190-191).
start(node) ==
  IF node.type = "undefined" THEN Point(null, null) ELSE node.position.start

end(node) ==
  IF node.type = "undefined" THEN Point(null, null) ELSE node.position.end

\* unist-util-generated (lines 32, 186): a node is generated when a line or
\* a column of its position is missing.
generated(node) ==
  \/ node.position.start.line = null
  \/ node.position.start.column = null
  \/ node.position.end.line = null
  \/ node.position.end.column = null

\* mdast-util-to-string (line 33): the value, else the alt, else the
\* strings of the children joined.
RECURSIVE toString(_)
RECURSIVE JoinStrings(_)
JoinStrings(nodes) ==
  IF nodes = <<>> THEN "" ELSE toString(Head(nodes)) \o JoinStrings(Tail(nodes))

toString(node) ==
  IF node.value # "" THEN node.value
  ELSE IF node.alt # "" THEN node.alt
  ELSE JoinStrings(node.children)

\* file.message(reason, position) (lines 47, 267, 272).
Message(reason, position) == [reason |-> reason, position |-> position]

\* 'Use headings shorter than `' + preferred + '`' (line 47); the quote '
\* stands for the backtick.
HeadingReason(p) == "Use headings shorter than '" \o NumberToString(p) \o "'"

MissingReason == "Missing new line after list item"

ExtraneousReason == "Extraneous new line after list item"

(***************************************************************************)
(* The heading visitor (lines 45-49): the messages one call adds.          *)
(***************************************************************************)
HeadingMessages(node, p) ==
  IF ~generated(node) /\ GreaterThan(Len(toString(node)), p)
  THEN <<Message(HeadingReason(p), node.position)>>
  ELSE <<>>

(***************************************************************************)
(* The list visitor's inner functions (lines 218-278).                     *)
(***************************************************************************)
\* Variant of inferMultiline: the end of the first child for the end of
\* the last.
inferMultilineHead(item) ==
  LET content == item.children
      head == At(content, 0)
  IN  (end(head).line - start(head).line) > 0

\* inferMultiline (lines 247-252).
inferMultiline(item) ==
  LET content == item.children
      head == At(content, 0)
      tail == At(content, Len(content) - 1)
  IN  (end(tail).line - start(head).line) > 0

\* The while loop of inferBlankLine (lines 233-244); index is the value
\* before `++index`.
RECURSIVE BlankLineLoop(_, _, _)
BlankLineLoop(children, i, child) ==
  IF ~(i + 1 < Len(children)) THEN FALSE
  ELSE LET next == At(children, i + 1)
       IN  IF (start(next).line - end(child).line) > 1 THEN TRUE
           ELSE BlankLineLoop(children, i + 1, next)

\* inferBlankLine (lines 226-245).
inferBlankLine(item) == BlankLineLoop(item.children, 0, At(item.children, 0))

\* Variant of Infer: the flag is assigned on every call, so the last item
\* decides.
InferLastWins(item, useBlanks, tight) ==
  LET fn == IF useBlanks THEN inferBlankLine(item) ELSE inferMultiline(item)
  IN  ~fn

\* infer (lines 218-224): the value of isTightList after the call.
Infer(item, useBlanks, tight) ==
  LET fn == IF useBlanks THEN inferBlankLine(item) ELSE inferMultiline(item)
  IN  IF fn THEN FALSE ELSE tight

\* Variant of Warn: `>=` for `>` in the column test.
WarnAtLeast(list, i, ind, tight, ty) ==
  LET item == list[i + 1]
      next == At(list, i + 1)
      isTight == end(item).column >= ind
  IN  IF next.type = "undefined" THEN <<>>
      ELSE IF isTight # tight
      THEN IF ty = "loose"
           THEN <<Message(MissingReason, [start |-> end(item), end |-> start(next)])>>
           ELSE <<Message(ExtraneousReason, [start |-> end(item), end |-> start(next)])>>
      ELSE <<>>

\* Variant of Warn: the `if (!next) return` left out.
WarnAfterLast(list, i, ind, tight, ty) ==
  LET item == list[i + 1]
      next == At(list, i + 1)
      isTight == end(item).column > ind
  IN  IF isTight # tight
      THEN IF ty = "loose"
           THEN <<Message(MissingReason, [start |-> end(item), end |-> start(next)])>>
           ELSE <<Message(ExtraneousReason, [start |-> end(item), end |-> start(next)])>>
      ELSE <<>>

\* Variant of Warn: the two reasons exchanged.
WarnSwapped(list, i, ind, tight, ty) ==
  LET item == list[i + 1]
      next == At(list, i + 1)
      isTight == end(item).column > ind
  IN  IF next.type = "undefined" THEN <<>>
      ELSE IF isTight # tight
      THEN IF ty = "loose"
           THEN <<Message(ExtraneousReason, [start |-> end(item), end |-> start(next)])>>
           ELSE <<Message(MissingReason, [start |-> end(item), end |-> start(next)])>>
      ELSE <<>>

\* warn (lines 254-278): the messages one call adds; i is the 0-based
\* index forEach passes.
Warn(list, i, ind, tight, ty) ==
  LET item == list[i + 1]
      next == At(list, i + 1)
      isTight == end(item).column > ind
  IN  IF next.type = "undefined" THEN <<>>
      ELSE IF isTight # tight
      THEN IF ty = "loose"
           THEN <<Message(MissingReason, [start |-> end(item), end |-> start(next)])>>
           ELSE <<Message(ExtraneousReason, [start |-> end(item), end |-> start(next)])>>
      ELSE <<>>

(***************************************************************************)
(* The documented examples (lines 13-25, 74-178) as trees, with the        *)
(* positions the documented output shows.                                  *)
(***************************************************************************)
Paragraph(p) == Node("paragraph", p, <<>>)

Nato == "Alpha bravo charlie delta echo foxtrot golf hotel"

\* ok.md (lines 15-17): a heading of text, and a heading of one image.
OkMd ==
  Node("root", Pos(1, 1, 3, 84),
    << Node("heading", Pos(1, 1, 1, 52), <<Text(Nato, Pos(1, 3, 1, 52))>>),
       Node("heading", Pos(3, 1, 3, 84), <<Image(Nato, Pos(3, 3, 3, 84))>>) >>)

\* not-ok.md (line 21).
NotOkMd ==
  Node("root", Pos(1, 1, 1, 52),
    << Node("heading", Pos(1, 1, 1, 52), <<Text(Nato, Pos(1, 3, 1, 52))>>) >>)

\* invalid.md (lines 93-106).
InvalidMd ==
  Node("root", Pos(1, 1, 14, 11),
    << Paragraph(Pos(1, 1, 1, 14)),
       Node("list", Pos(3, 1, 6, 11),
         << Node("listItem", Pos(3, 1, 4, 9), <<Paragraph(Pos(3, 5, 4, 9))>>),
            Node("listItem", Pos(5, 1, 5, 11), <<Paragraph(Pos(5, 5, 5, 11))>>),
            Node("listItem", Pos(6, 1, 6, 11), <<Paragraph(Pos(6, 5, 6, 11))>>) >>),
       Paragraph(Pos(8, 1, 8, 14)),
       Node("list", Pos(10, 1, 14, 11),
         << Node("listItem", Pos(10, 1, 11, 1), <<Paragraph(Pos(10, 5, 10, 11))>>),
            Node("listItem", Pos(12, 1, 13, 1), <<Paragraph(Pos(12, 5, 12, 11))>>),
            Node("listItem", Pos(14, 1, 14, 11), <<Paragraph(Pos(14, 5, 14, 11))>>) >>) >>)

\* invalid.md for {checkBlanks: true} (lines 146-171).
InvalidBlanksMd ==
  Node("root", Pos(1, 1, 26, 8),
    << Paragraph(Pos(1, 1, 1, 14)),
       Node("list", Pos(3, 1, 13, 8),
         << Node("listItem", Pos(3, 1, 5, 15),
              << Paragraph(Pos(3, 5, 3, 11)),
                 Node("list", Pos(5, 5, 5, 15),
                   << Node("listItem", Pos(5, 5, 5, 15),
                        <<Paragraph(Pos(5, 7, 5, 15))>>) >>) >>),
            Node("listItem", Pos(6, 1, 8, 17),
              << Paragraph(Pos(6, 5, 6, 11)),
                 Node("blockquote", Pos(8, 5, 8, 17),
                   <<Paragraph(Pos(8, 7, 8, 17))>>) >>),
            Node("listItem", Pos(9, 1, 13, 8),
              << Paragraph(Pos(9, 5, 9, 11)),
                 Node("code", Pos(11, 5, 13, 8), <<>>) >>) >>),
       Paragraph(Pos(15, 1, 15, 14)),
       Node("list", Pos(17, 1, 26, 8),
         << Node("listItem", Pos(17, 1, 19, 1),
              << Paragraph(Pos(17, 5, 17, 11)),
                 Node("list", Pos(18, 5, 18, 15),
                   << Node("listItem", Pos(18, 5, 18, 15),
                        <<Paragraph(Pos(18, 7, 18, 15))>>) >>) >>),
            Node("listItem", Pos(20, 1, 22, 1),
              << Paragraph(Pos(20, 5, 20, 11)),
                 Node("blockquote", Pos(21, 5, 21, 17),
                   <<Paragraph(Pos(21, 7, 21, 17))>>) >>),
            Node("listItem", Pos(23, 1, 26, 8),
              << Paragraph(Pos(23, 5, 23, 11)),
                 Node("code", Pos(24, 5, 26, 8), <<>>) >>) >>) >>)

(***************************************************************************)
(* Generated documents of headings.  A block is <<place, content>>: the    *)
(* heading is at the top level, or generated, or inside a block quote.     *)
(***************************************************************************)
Chars30 == "abcdefghijklmnopqrstuvwxyz0123"

Chars31 == "abcdefghijklmnopqrstuvwxyz01234"

\* The children of a heading on line l: strings of 0, 2, 3, 60, 61 characters.
HeadingContent(c, l) ==
  CASE c = 1 -> <<>>
    [] c = 2 -> <<Text("ab", Pos(l, 3, l, 5))>>
    [] c = 3 -> << Node("emphasis", Pos(l, 3, l, 7), <<Text("ab", Pos(l, 4, l, 6))>>),
                   Text("c", Pos(l, 7, l, 8)) >>
    [] c = 4 -> <<Image(Chars30 \o Chars30, Pos(l, 3, l, 70))>>
    [] OTHER -> << Text(Chars30, Pos(l, 3, l, 33)),
                   Node("strong", Pos(l, 33, l, 68), <<Text(Chars31, Pos(l, 35, l, 66))>>) >>

HeadingBlock(b, l) ==
  LET place == b[1]
      content == HeadingContent(b[2], l)
  IN  CASE place = "top" -> Node("heading", Pos(l, 1, l, 70), content)
        [] place = "generated" -> Node("heading", NoPosition, content)
        [] OTHER -> Node("blockquote", Pos(l, 1, l, 72),
                      <<Node("heading", Pos(l, 3, l, 72), content)>>)

HeadingBlocks == {"top", "generated", "quoted"} \X (1..5)

HeadingDoc(bs) ==
  Node("root", Pos(1, 1, 2 * Len(bs) + 1, 1),
       [k \in 1..Len(bs) |-> HeadingBlock(bs[k], 2 * k - 1)])

HeadingDocs(n) == UNION {{HeadingDoc(bs) : bs \in [1..m -> HeadingBlocks]} : m \in 0..n}

HeadingOptions ==
  { JsUndefined, JsNull, JsNaN, JsInfinity, JsNegInfinity, JsString("40"),
    JsBoolean(TRUE), JsObject(JsUndefined),
    JsNumber(0), JsNumber(2), JsNumber(3), JsNumber(40), JsNumber(60), JsNumber(61) }

(***************************************************************************)
(* Generated documents of lists.  An item is described by the line spans   *)
(* <<first, last>> of its children, relative to the item (<<0, 0>>: a      *)
(* child without position), and by its end column (0: an item without      *)
(* position).  Item k of a list starts Stride lines after item k - 1.      *)
(***************************************************************************)
Stride == MaxLine + 1

ChildSpans == {<<0, 0>>} \cup ((1..MaxLine) \X (1..MaxLine))

SpanParagraph(span, off, ind) ==
  IF span = <<0, 0>> THEN Paragraph(NoPosition)
  ELSE Paragraph(Pos(off + span[1], ind + 2, off + span[2], ind + 3))

ItemNode(children, off, ind, endColumn) ==
  Node("listItem",
       IF endColumn = 0 THEN NoPosition ELSE Pos(off + 1, ind, off + MaxLine, endColumn),
       children)

Item(it, off, ind) ==
  ItemNode([k \in 1..Len(it.content) |-> SpanParagraph(it.content[k], off, ind)],
           off, ind, it.endColumn)

\* A list of the items its, starting after line base, at column ind
\* (0: a list without position).
List(its, base, ind) ==
  Node("list",
       IF ind = 0 THEN NoPosition
       ELSE Pos(base + 1, ind, base + Stride * Len(its) + 1, ind + 1),
       [k \in 1..Len(its) |-> Item(its[k], base + Stride * (k - 1), ind)])

Doc(blocks) == Node("root", Pos(1, 1, 1 + Stride * 2 * MaxItems, 1), blocks)

\* One-line, two-line, and two paragraphs with a blank line between.
PaletteContents == { <<<<1, 1>>>>, <<<<1, 2>>>>, << <<1, 1>>, <<3, 3>> >> }

BaseIndent == MaxColumn - 1

\* Items ending at the list's column, and items ending past it.
PaletteItems == [content : PaletteContents, endColumn : {BaseIndent, BaseIndent + 1}]

\* The same, and items without position.
PaletteItemsOrNone ==
  [content : PaletteContents, endColumn : {0, BaseIndent, BaseIndent + 1}]

FreeContents == UNION {[1..n -> ChildSpans] : n \in 0..MaxChildren}

\* Lists of up to MaxItems palette items.
PaletteLists ==
  UNION {{List(its, 0, BaseIndent) : its \in [1..n -> PaletteItems]} : n \in 0..MaxItems}

\* Lists without position.
GeneratedLists ==
  UNION {{List(its, 0, 0) : its \in [1..n -> PaletteItems]} : n \in 1..2}

\* Lists of two items, with or without position.
UnpositionedItemLists ==
  {List(its, 0, BaseIndent) : its \in [1..2 -> PaletteItemsOrNone]}

\* Lists of one item with any content.
FreeLists ==
  { List(<<[content |-> c, endColumn |-> BaseIndent + 1]>>, 0, BaseIndent)
    : c \in FreeContents }

\* Lists of two items at any column, the first item ending at any column.
ColumnLists ==
  { List(<< [content |-> c, endColumn |-> e],
            [content |-> <<<<1, 1>>>>, endColumn |-> ind + 1] >>, 0, ind)
    : c \in PaletteContents, e \in 0..MaxColumn, ind \in 1..MaxColumn }

\* Two-item lists, for documents of several lists.
SmallItems(ind) == [content : {<<<<1, 1>>>>, <<<<1, 2>>>>}, endColumn : {ind, ind + 1}]

SmallLists(base, ind) == {List(its, base, ind) : its \in [1..2 -> SmallItems(ind)]}

SiblingDocs ==
  { Doc(<<a, Paragraph(Pos(2 * Stride + 2, 1, 2 * Stride + 2, 9)), b>>)
    : a \in SmallLists(0, 1), b \in SmallLists(2 * Stride + 2, 1) }

\* A list whose first item holds a paragraph and, gap lines further, a list.
NestedDocs ==
  { Doc(<< Node("list", Pos(1, 1, 3 * Stride + 3, 9),
             << Node("listItem", Pos(1, 1, 2 * Stride + 3, e),
                     <<Paragraph(Pos(1, 3, 1, 9)), inner[2]>>),
                Node("listItem", Pos(2 * Stride + 3, 1, 2 * Stride + 3, 9),
                     <<Paragraph(Pos(2 * Stride + 3, 3, 2 * Stride + 3, 9))>>) >>) >>)
    : e \in {1, 2},
      inner \in UNION {{<<gap, l>> : l \in SmallLists(1 + gap, 3)} : gap \in 0..1} }

ListOptions ==
  { JsUndefined, JsNull, JsBoolean(TRUE), JsBoolean(FALSE), JsNumber(1), JsNumber(0),
    JsString("checkBlanks"), JsString(""), JsObject(JsUndefined),
    JsObject(JsBoolean(TRUE)), JsObject(JsBoolean(FALSE)), JsObject(JsNumber(1)),
    JsObject(JsNumber(0)), JsObject(JsString("yes")), JsObject(JsNull), JsObject(JsNaN) }

Input(r, t, o) == [rule |-> r, tree |-> t, option |-> o]

Inputs ==
  {Input("maximum-heading-length", t, o)
     : t \in {OkMd, NotOkMd} \cup HeadingDocs(1), o \in HeadingOptions}
  \cup {Input("maximum-heading-length", t, o)
     : t \in HeadingDocs(MaxBlocks) \cup {InvalidMd}, o \in {JsUndefined, JsNumber(2)}}
  \cup {Input("list-item-spacing", t, o)
     : t \in {InvalidMd, InvalidBlanksMd, OkMd}, o \in ListOptions}
  \cup {Input("list-item-spacing", Doc(<<l>>), o)
     : l \in PaletteLists \cup GeneratedLists \cup UnpositionedItemLists
            \cup FreeLists \cup ColumnLists,
       o \in {JsUndefined, JsObject(JsBoolean(TRUE))}}
  \cup {Input("list-item-spacing", t, o)
     : t \in SiblingDocs \cup NestedDocs, o \in {JsUndefined, JsObject(JsBoolean(TRUE))}}

(***************************************************************************)
(* The state machine.                                                      *)
(***************************************************************************)
Init ==
  \E i \in Inputs :
    /\ rule = i.rule
    /\ tree = i.tree
    /\ option = i.option
    /\ pc = "start"
    /\ preferred = JsUndefined
    /\ blanks = FALSE
    /\ pending = <<>>
    /\ items = <<>>
    /\ isTightList = TRUE
    /\ indent = null
    /\ type = "undefined"
    /\ index = 0
    /\ messages = <<>>
    /\ origin = <<>>

\* The test visit() is given (lines 43, 200).
Test == IF rule = "maximum-heading-length" THEN "heading" ELSE "list"

\* visit() goes on in document order: after a node, its children.
Descend(node) == node.children \o Tail(pending)

\* maximumHeadingLength, up to its call of visit (lines 40-43).
maximumHeadingLength ==
  /\ pc = "start"
  /\ rule = "maximum-heading-length"
  /\ preferred' = Preferred(option)
  /\ pending' = <<tree>>
  /\ pc' = "visit"
  /\ UNCHANGED <<rule, tree, option, blanks, items, isTightList, indent, type,
                 index, messages, origin>>

\* listItemSpacing, up to its call of visit (lines 193-200).
listItemSpacing ==
  /\ pc = "start"
  /\ rule = "list-item-spacing"
  /\ LET value == CheckBlanksExpr(option)
     IN  IF value.kind = "throw"
         THEN /\ pc' = "thrown"
              /\ UNCHANGED <<blanks, pending>>
         ELSE /\ blanks' = Truthy(value)
              /\ pending' = <<tree>>
              /\ pc' = "visit"
  /\ UNCHANGED <<rule, tree, option, preferred, items, isTightList, indent, type,
                 index, messages, origin>>

\* visit() passes a node the test does not match.
visitOther ==
  /\ pc = "visit"
  /\ pending # <<>>
  /\ Head(pending).type # Test
  /\ pending' = Descend(Head(pending))
  /\ UNCHANGED <<rule, tree, option, pc, preferred, blanks, items, isTightList,
                 indent, type, index, messages, origin>>

\* visit() has passed every node: the rule returns.
visitEnd ==
  /\ pc = "visit"
  /\ pending = <<>>
  /\ pc' = "done"
  /\ UNCHANGED <<rule, tree, option, preferred, blanks, pending, items,
                 isTightList, indent, type, index, messages, origin>>

\* The heading visitor (lines 45-49).
headingVisitor ==
  /\ pc = "visit"
  /\ pending # <<>>
  /\ rule = "maximum-heading-length"
  /\ Head(pending).type = Test
  /\ LET node == Head(pending)
         new == HeadingMessages(node, preferred)
     IN  /\ messages' = messages \o new
         /\ origin' = origin \o [k \in 1..Len(new) |-> [node |-> node, index |-> 0]]
         /\ pending' = Descend(node)
  /\ UNCHANGED <<rule, tree, option, pc, preferred, blanks, items, isTightList,
                 indent, type, index>>

\* Variant of IsTightListAtEntry: the flag keeps the value the last list
\* left.
IsTightListKept == isTightList

\* The list visitor up to `items.forEach(infer)` (lines 202-212).
IsTightListAtEntry == TRUE

listVisitor ==
  /\ pc = "visit"
  /\ pending # <<>>
  /\ rule = "list-item-spacing"
  /\ Head(pending).type = Test
  /\ LET node == Head(pending)
     IN  /\ items' = node.children
         /\ isTightList' = IsTightListAtEntry
         /\ indent' = start(node).column
         /\ type' = "undefined"
         /\ IF generated(node)
            THEN /\ pending' = Descend(node)
                 /\ UNCHANGED <<pc, index>>
            ELSE /\ pc' = "infer"
                 /\ index' = 1
                 /\ UNCHANGED pending
  /\ UNCHANGED <<rule, tree, option, preferred, blanks, messages, origin>>

\* One call of infer by items.forEach (lines 212, 218-224).
infer ==
  /\ pc = "infer"
  /\ index <= Len(items)
  /\ isTightList' = Infer(items[index], blanks, isTightList)
  /\ index' = index + 1
  /\ UNCHANGED <<rule, tree, option, pc, preferred, blanks, pending, items, indent,
                 type, messages, origin>>

\* type = isTightList ? 'tight' : 'loose' (line 214).
TypeOf(tight) == IF tight THEN "tight" ELSE "loose"

classify ==
  /\ pc = "infer"
  /\ index > Len(items)
  /\ type' = TypeOf(isTightList)
  /\ pc' = "warn"
  /\ index' = 1
  /\ UNCHANGED <<rule, tree, option, preferred, blanks, pending, items, isTightList,
                 indent, messages, origin>>

\* One call of warn by items.forEach (lines 216, 254-278).
warn ==
  /\ pc = "warn"
  /\ index <= Len(items)
  /\ LET new == Warn(items, index - 1, indent, isTightList, type)
     IN  /\ messages' = messages \o new
         /\ origin' = origin \o
              [k \in 1..Len(new) |-> [node |-> Head(pending), index |-> index]]
  /\ index' = index + 1
  /\ UNCHANGED <<rule, tree, option, pc, preferred, blanks, pending, items,
                 isTightList, indent, type>>

\* The list visitor returns, and visit() goes on (line 279).
visitorReturn ==
  /\ pc = "warn"
  /\ index > Len(items)
  /\ pending' = Descend(Head(pending))
  /\ pc' = "visit"
  /\ UNCHANGED <<rule, tree, option, preferred, blanks, items, isTightList, indent,
                 type, index, messages, origin>>

Next ==
  \/ maximumHeadingLength
  \/ listItemSpacing
  \/ visitOther
  \/ visitEnd
  \/ headingVisitor
  \/ listVisitor
  \/ infer
  \/ classify
  \/ warn
  \/ visitorReturn

Spec == Init /\ [][Next]_vars

(***************************************************************************)
(* Vocabulary of the properties: the tree in document order, and what the  *)
(* statements say of a node, read from the node's own fields.              *)
(***************************************************************************)
RECURSIVE NodesOf(_)
RECURSIVE NodesOfAll(_)
NodesOfAll(nodes) ==
  IF nodes = <<>> THEN <<>> ELSE NodesOf(Head(nodes)) \o NodesOfAll(Tail(nodes))

\* The node and its descendants, in document order.
NodesOf(node) == <<node>> \o NodesOfAll(node.children)

RECURSIVE Flatten(_)
Flatten(seqs) == IF seqs = <<>> THEN <<>> ELSE Head(seqs) \o Flatten(Tail(seqs))

Range(seq) == {seq[k] : k \in DOMAIN seq}

IsHeading(n) == n.type = "heading"

IsList(n) == n.type = "list"

HasPosition(n) ==
  /\ n.position.start.line > 0
  /\ n.position.start.column > 0
  /\ n.position.end.line > 0
  /\ n.position.end.column > 0

\* A length is strictly greater than a threshold, infinite ones included.
Exceeds(n, t) == t.kind = "-Infinity" \/ (t.kind = "finite" /\ n > t.val)

\* The item spans more than one line: last child's end line minus first
\* child's start line is greater than 0.
IsMultiline(item) ==
  LET ch == item.children
  IN  ch # <<>> /\ ch[Len(ch)].position.end.line - ch[1].position.start.line > 0

\* Two adjacent children of the item are more than one line apart.
HasBlankLine(item) ==
  LET ch == item.children
  IN  \E k \in 1..(Len(ch) - 1) :
        ch[k + 1].position.start.line - ch[k].position.end.line > 1

ForcesLoose(item, checkBlanks) ==
  IF checkBlanks THEN HasBlankLine(item) ELSE IsMultiline(item)

ShouldBeLoose(list, checkBlanks) ==
  \E i \in 1..Len(list.children) : ForcesLoose(list.children[i], checkBlanks)

\* Item i of the list ends past the list's start column: observed tight.
ObservedTight(list, i) ==
  list.children[i].position.end.column > list.position.start.column

BoundaryMessage(list, i, loose) ==
  [reason |-> IF loose THEN MissingReason ELSE ExtraneousReason,
   position |-> [start |-> list.children[i].position.end,
                 end |-> list.children[i + 1].position.start]]

\* The boundaries of the list whose observed tightness differs from the
\* classification, in order.
Mismatches(list, loose) ==
  SelectSeq([i \in 1..(Len(list.children) - 1) |-> i],
            LAMBDA i : ObservedTight(list, i) = loose)

\* What one list is to be reported for, taken alone.
ListAlone(list, checkBlanks) ==
  IF ~HasPosition(list) THEN <<>>
  ELSE LET loose == ShouldBeLoose(list, checkBlanks)
           at == Mismatches(list, loose)
       IN  [k \in 1..Len(at) |-> BoundaryMessage(list, at[k], loose)]

TreeAlone(t, checkBlanks) ==
  LET lists == SelectSeq(NodesOf(t), IsList)
  IN  Flatten([k \in 1..Len(lists) |-> ListAlone(lists[k], checkBlanks)])

\* The indexes of the messages reported on the node.
MessagesOn(node) == {k \in DOMAIN messages : origin[k].node = node}

HeadingRule == rule = "maximum-heading-length"

ListRule == rule = "list-item-spacing"

(***************************************************************************)
(* C1: when maximumHeadingLength returns, the messages are, in document    *)
(* order, one message naming the threshold for each heading with a         *)
(* position, at any depth, whose text is strictly longer than the          *)
(* threshold, anchored at the heading; no other heading has a message.     *)
(***************************************************************************)
C1_HeadingMessages ==
  (HeadingRule /\ pc = "done") =>
    LET long == SelectSeq(NodesOf(tree),
                  LAMBDA n : /\ IsHeading(n)
                             /\ HasPosition(n)
                             /\ Exceeds(Len(toString(n)), preferred))
    IN  messages = [k \in 1..Len(long) |->
                      [reason |-> HeadingReason(preferred),
                       position |-> long[k].position]]

\* A short heading, then a long heading inside a block quote: one message,
\* at the nested heading.
C1_Witness ==
  /\ HeadingRule
  /\ pc = "done"
  /\ Len(tree.children) = 2
  /\ tree.children[1].type = "heading"
  /\ HasPosition(tree.children[1])
  /\ tree.children[2].type = "blockquote"
  /\ Len(messages) = 1
  /\ messages[1].position = tree.children[2].children[1].position

(***************************************************************************)
(* C2, as claimed: the threshold is the option when the option is a finite *)
(* number, and 60 for every other option, the infinities included.         *)
(***************************************************************************)
C2_FiniteOnly ==
  (HeadingRule /\ pc # "start") =>
    preferred = IF option.kind = "finite" THEN option ELSE JsNumber(60)

(***************************************************************************)
(* C2, amended: the threshold, which every message names, is the option    *)
(* when the option is a number other than NaN (the infinities included),   *)
(* and 60 for every other option.                                          *)
(***************************************************************************)
C2_NumberNotNaN ==
  (HeadingRule /\ pc # "start") =>
    LET t == IF option.type = "number" /\ option.kind # "NaN"
             THEN option ELSE JsNumber(60)
    IN  /\ preferred = t
        /\ \A k \in DOMAIN messages : messages[k].reason = HeadingReason(t)

\* The option -Infinity is the threshold: a message names it.
C2_Witness ==
  /\ HeadingRule
  /\ option = JsNegInfinity
  /\ messages # <<>>
  /\ messages[1].reason = "Use headings shorter than '-Infinity'"

(***************************************************************************)
(* C3: once a list with a position is classified, it is loose exactly      *)
(* when one of its items satisfies the active predicate (multiline with    *)
(* checkBlanks false, a blank line between children with checkBlanks       *)
(* true), and tight otherwise.                                             *)
(***************************************************************************)
C3_Inference ==
  (ListRule /\ pc = "warn") =>
    /\ type \in {"tight", "loose"}
    /\ (type = "loose") <=> ShouldBeLoose(Head(pending), blanks)
    /\ HasPosition(Head(pending))

\* Blank-line mode: the first item is multiline without a blank line, and
\* a later item makes the list loose.
C3_Witness ==
  /\ ListRule
  /\ pc = "warn"
  /\ blanks
  /\ type = "loose"
  /\ Len(Head(pending).children) >= 2
  /\ ~HasBlankLine(Head(pending).children[1])
  /\ IsMultiline(Head(pending).children[1])

(***************************************************************************)
(* C4: a call of warn for item i of a list adds one message when the item  *)
(* has a following item and its observed tightness (end column greater     *)
(* than the list's start column) differs from the classification:          *)
(* 'Missing ...' for a loose list, 'Extraneous ...' for a tight one, from  *)
(* the end of item i to the start of item i + 1.  It adds nothing          *)
(* otherwise.                                                              *)
(***************************************************************************)
C4_Verification ==
  [][(pc = "warn" /\ index <= Len(Head(pending).children)) =>
       LET list == Head(pending)
       IN  IF /\ index < Len(list.children)
              /\ ObservedTight(list, index) # (type = "tight")
           THEN messages' = Append(messages, BoundaryMessage(list, index, type = "loose"))
           ELSE messages' = messages]_vars

\* A tight list of three items: the first boundary is reported, the second
\* is observed tight and is not.
C4_Witness ==
  /\ ListRule
  /\ pc = "warn"
  /\ index = 3
  /\ type = "tight"
  /\ Len(messages) = 1
  /\ messages[1].reason = ExtraneousReason
  /\ ObservedTight(Head(pending), 2)

(***************************************************************************)
(* C5, as claimed: no message is reported on a node without position: not  *)
(* on a heading or a list without position, not on a list item without     *)
(* position, and no message range holds a missing point.                   *)
(***************************************************************************)
C5_NoMessageWithoutPosition ==
  \A k \in DOMAIN messages :
    /\ HasPosition(origin[k].node)
    /\ origin[k].index > 0 => HasPosition(origin[k].node.children[origin[k].index])
    /\ messages[k].position.start.line # null
    /\ messages[k].position.end.line # null

(***************************************************************************)
(* C6: no message is reported on the last item of a list, so a list of n   *)
(* items has at most n - 1 messages, and none when n < 2.                  *)
(***************************************************************************)
C6_LastItemUnchecked ==
  ListRule =>
    \A k \in DOMAIN messages :
      LET n == Len(origin[k].node.children)
      IN  /\ origin[k].index < n
          /\ Cardinality(MessagesOn(origin[k].node)) <= n - 1

\* Three items, a loose list, every item observed tight, the last too: two
\* messages.
C6_Witness ==
  /\ ListRule
  /\ pc = "done"
  /\ Len(tree.children) = 1
  /\ IsList(tree.children[1])
  /\ Len(tree.children[1].children) = 3
  /\ ObservedTight(tree.children[1], 3)
  /\ Len(messages) = 2
  /\ messages[2].reason = MissingReason

(***************************************************************************)
(* C7: in the default mode, a list with a position and exactly one         *)
(* multiline item has, when the rule returns, one 'Missing new line after  *)
(* list item' message for each boundary that is observed tight (no blank   *)
(* line follows the item), in order, and no other message.                 *)
(***************************************************************************)
C7_OneMultilineItem ==
  (ListRule /\ pc = "done" /\ ~blanks) =>
    \A list \in {n \in Range(NodesOf(tree)) : IsList(n)} :
      LET n == Len(list.children)
      IN  (/\ HasPosition(list)
           /\ Cardinality({i \in 1..n : IsMultiline(list.children[i])}) = 1)
          => /\ {origin[k].index : k \in MessagesOn(list)}
                  = {i \in 1..(n - 1) : ObservedTight(list, i)}
             /\ Cardinality(MessagesOn(list))
                  = Cardinality({i \in 1..(n - 1) : ObservedTight(list, i)})
             /\ \A k \in MessagesOn(list) :
                  messages[k] = BoundaryMessage(list, origin[k].index, TRUE)

\* invalid.md: 4:9-5:1 and 5:11-6:1 are reported as missing a new line.
C7_Witness ==
  /\ ListRule
  /\ pc = "done"
  /\ ~blanks
  /\ tree = InvalidMd
  /\ Len(messages) >= 2
  /\ messages[1] = Message(MissingReason, Pos(4, 9, 5, 1))
  /\ messages[2] = Message(MissingReason, Pos(5, 11, 6, 1))

(***************************************************************************)
(* C8: listItemSpacing never throws; blank-line mode is active exactly     *)
(* when the option is an object whose checkBlanks is truthy; with any      *)
(* other option the messages are those of the default mode.                *)
(***************************************************************************)
IsBlanksOption(o) == o.kind = "object" /\ Truthy(o.checkBlanks)

C8_OptionResolution ==
  ListRule =>
    /\ pc # "thrown"
    /\ pc # "start" => blanks = IsBlanksOption(option)
    /\ (pc = "done" /\ ~IsBlanksOption(option)) => messages = TreeAlone(tree, FALSE)

\* The option null on the blank-line example: the two messages of the
\* default mode.
C8_Witness ==
  /\ ListRule
  /\ pc = "done"
  /\ option = JsNull
  /\ tree = InvalidBlanksMd
  /\ Len(messages) = 2

(***************************************************************************)
(* C9: for a list whose items' children are in source order (no child      *)
(* starts after it ends, none ends after the next starts), loose in        *)
(* blank-line mode implies loose in the default mode: a list classified    *)
(* loose with checkBlanks true has a multiline item, and a list classified *)
(* tight with checkBlanks false has no item with a blank line.             *)
(***************************************************************************)
InSourceOrder(list) ==
  \A i \in 1..Len(list.children) :
    LET ch == list.children[i].children
    IN  \A k \in 1..Len(ch) :
          /\ ch[k].position.start.line <= ch[k].position.end.line
          /\ k < Len(ch) => ch[k].position.end.line <= ch[k + 1].position.start.line

C9_BlankImpliesMultiline ==
  (ListRule /\ pc = "warn" /\ InSourceOrder(Head(pending))) =>
    LET its == Head(pending).children
    IN  /\ (blanks /\ type = "loose") => \E i \in 1..Len(its) : inferMultiline(its[i])
        /\ (~blanks /\ type = "tight") => \A i \in 1..Len(its) : ~inferBlankLine(its[i])

\* The converse fails: loose in the default mode, no blank line anywhere.
C9_Witness ==
  /\ ListRule
  /\ pc = "warn"
  /\ InSourceOrder(Head(pending))
  /\ ~blanks
  /\ type = "loose"
  /\ \A i \in 1..Len(items) : ~inferBlankLine(items[i])

(***************************************************************************)
(* C10: when listItemSpacing returns, the messages are the messages of     *)
(* each list taken alone, one list after the other in document order: a    *)
(* list's classification does not reach the next list, nested or sibling.  *)
(***************************************************************************)
C10_PerListIsolation ==
  (ListRule /\ pc = "done") => messages = TreeAlone(tree, blanks)

\* Two lists in one tree, the first loose and reported, the last tight and
\* reported.
C10_Witness ==
  /\ ListRule
  /\ pc = "done"
  /\ Len(SelectSeq(NodesOf(tree), IsList)) = 2
  /\ Len(messages) >= 2
  /\ messages[1].reason = MissingReason
  /\ messages[Len(messages)].reason = ExtraneousReason

====
